---- MODULE Spec2Model ----
(***************************************************************************)
(* Model of the inventory synchronizer:                                    *)
(*   webhook (HMAC check, adapter A)  ->  BullMQ queue  ->  worker         *)
(*   ->  Redlock per-product lock  ->  transactional upsert + audit row,   *)
(*   the two adapters' transform, and the Marketplace B polling cycle      *)
(*   (single-flight guard, circuit breaker, cursor in Redis), also during  *)
(*   an outage and against a changing upstream, and the worker's shutdown. *)
(* Strings built by the code (job ids, signatures, request bodies) are     *)
(* modelled as tuples / token sequences with the same equalities.          *)
(***************************************************************************)
EXTENDS Integers, Sequences, FiniteSets, TLC

\* ------------------------------------------------------------------ bounds
\* Date.now() takes the values 0..MaxNow (milliseconds).
MaxNow == 1
\* Number of webhook requests the service receives.
MaxRequests == 2
\* Budget of environment events: query failures, lock TTL expiries, lock
\* acquisition timeouts and worker crashes.
MaxEvents == 2
\* Number of poll() invocations (cron ticks, the startup run, manual triggers).
MaxPolls == 4
\* poll() invocations during an outage of Marketplace B.
MaxOutagePolls == 12
\* Polling against a changing upstream: seconds on the clock, updates of
\* Marketplace B's inventory, poll() invocations.
MaxSeconds == 2
MaxUpdates == 2
MaxCursorPolls == 2
\* Length of the lists handed to transformBatch.
MaxBatch == 3
\* Number of webhooks that arrive for one product under contention.
MaxContenders == 6

\* ------------------------------------------------------- program constants
\* Worker option concurrency: jobs one worker process runs in parallel.
concurrency == 5
\* defaultJobOptions.attempts of the queue.
attempts == 5
\* BullMQ WorkerOptions.maxStalledCount; the constructor passes no override,
\* so the library default applies.
maxStalledCount == 1
\* Length of a SHA-256 digest in hex.
HexLen == 64
\* defaultJobOptions.backoff.delay of the queue, in milliseconds.
backoffDelay == 2000
\* Redlock setting retryCount, set by LockService's constructor from
\* defaultOptions.retries.
retryCount == 5
\* The option `retries` executeUpdate passes to withLock.
optsRetries == 3
\* PollingService.MAX_FAILURES.
MAX_FAILURES == 3
\* The limit parameter of GET /inventory/updates.
limit == 100
\* Delay of the circuit breaker's reset timer: 15 minutes, in milliseconds.
ResetDelay == 15 * 60 * 1000
\* Period of the cron schedule '*/5 * * * *', in milliseconds.
CronPeriod == 5 * 60 * 1000

Workers == {"w1", "w2"}
Products == {"P1", "P2"}
Sources == {"marketplace_a", "marketplace_b"}
\* The unique constraint (product_id, source) of table inventory.
Keys == Products \X Sources

\* ------------------------------------------------------------ JSON values
JStr(s) == [kind |-> "str", s |-> s, n |-> 0]
JInt(n) == [kind |-> "int", s |-> "", n |-> n]
\* A number that is not an integer.
JFrac == [kind |-> "frac", s |-> "", n |-> 0]
JNone == [kind |-> "none", s |-> "", n |-> 0]

\* A request body is a sequence of tokens: braces, whitespace and members.
Tok(k, v) == [k |-> k, v |-> v]
LBrace == Tok("{", JNone)
RBrace == Tok("}", JNone)
Space == Tok(" ", JNone)
IsMember(t) == t.k \notin {"{", "}", " "}

\* express.json(): the parsed body keeps the members, in their order.
JsonParse(raw) == SelectSeq(raw, IsMember)

\* JSON.stringify: compact serialization of the members, no whitespace.
JsonStringify(obj) == <<LBrace>> \o obj \o <<RBrace>>

\* obj[key]: the last member with that key, undefined when absent.
RECURSIVE Get(_, _)
Get(obj, key) ==
  IF obj = <<>> THEN JNone
  ELSE IF obj[Len(obj)].k = key THEN obj[Len(obj)].v
       ELSE Get(SubSeq(obj, 1, Len(obj) - 1), key)

\* ------------------------------------------------------------------- dates
\* The instants (milliseconds since the epoch) the model's dates range over.
Instants == {-1000, 0, 500, 1000, 2000}

Pad(n, w) ==
  IF w = 3 /\ n < 10 THEN "00" \o ToString(n)
  ELSE IF (w = 3 /\ n < 100) \/ (w = 2 /\ n < 10) THEN "0" \o ToString(n)
  ELSE ToString(n)

\* new Date(ms).toISOString(), for instants within a minute of the epoch.
ToISOString(ms) ==
  IF ms >= 0
  THEN "1970-01-01T00:00:" \o Pad(ms \div 1000, 2) \o "." \o Pad(ms % 1000, 3) \o "Z"
  ELSE "1969-12-31T23:59:" \o Pad((60000 + ms) \div 1000, 2) \o "."
         \o Pad((60000 + ms) % 1000, 3) \o "Z"

\* z.string().datetime(): an ISO 8601 date-time in UTC (suffix Z).
IsDatetime(s) == \E ms \in Instants : s = ToISOString(ms)

\* The instant a date-time string denotes.
DateParse(s) == CHOOSE ms \in Instants : s = ToISOString(ms)

\* x * 1000 for a JSON number x; the model's non-integer number is 1/2.
Times1000(v) == IF v.kind = "int" THEN v.n * 1000 ELSE 500

\* ---------------------------------------------------------------- adapters
\* A field declared z.string().optional().
OptionalString(v) == v.kind \in {"str", "none"}

\* MarketplaceAPayloadSchema.parse succeeds.
SchemaAOk(obj) ==
  /\ Get(obj, "product_code").kind = "str"
  /\ Get(obj, "available_stock").kind = "int"
  /\ Get(obj, "timestamp").kind = "str"
  /\ OptionalString(Get(obj, "warehouse"))

\* MarketplaceAAdapter.transform: the internal record, when the schema accepts.
TransformA(obj) ==
  [productId |-> Get(obj, "product_code").s,
   quantity |-> Get(obj, "available_stock").n,
   source |-> "marketplace_a",
   warehouseId |-> Get(obj, "warehouse"),
   updatedAt |-> Get(obj, "timestamp").s]

\* MarketplaceBPayloadSchema.parse succeeds.
SchemaBOk(obj) ==
  /\ Get(obj, "sku").kind = "str"
  /\ Get(obj, "qty").kind = "int"
  /\ OptionalString(Get(obj, "location_id"))
  /\ Get(obj, "last_modified").kind \in {"int", "frac"}

\* MarketplaceBAdapter.transform: the internal record, when the schema accepts.
TransformB(obj) ==
  [productId |-> Get(obj, "sku").s,
   quantity |-> Get(obj, "qty").n,
   source |-> "marketplace_b",
   warehouseId |-> Get(obj, "location_id"),
   updatedAt |-> ToISOString(Times1000(Get(obj, "last_modified")))]

\* InternalInventorySchema.parse succeeds.
InternalInventoryOk(rec) ==
  /\ rec.productId # ""
  /\ rec.quantity >= 0
  /\ rec.source \in Sources
  /\ OptionalString(rec.warehouseId)
  /\ IsDatetime(rec.updatedAt)

\* The result of a call of transform: the record, or the thrown error.
NoRecord ==
  [productId |-> "", quantity |-> 0, source |-> "", warehouseId |-> JNone,
   updatedAt |-> ""]
Returned(rec) == [called |-> TRUE, ok |-> TRUE, rec |-> rec]
Threw == [called |-> TRUE, ok |-> FALSE, rec |-> NoRecord]
NotCalled == [called |-> FALSE, ok |-> FALSE, rec |-> NoRecord]

Transform(adapter, obj) ==
  IF adapter = "marketplace_a"
  THEN IF SchemaAOk(obj) THEN Returned(TransformA(obj)) ELSE Threw
  ELSE IF SchemaBOk(obj) THEN Returned(TransformB(obj)) ELSE Threw

\* ---------------------------------------------------------------- signature
Secret == "secret"

\* createHmac('sha256', key).update(msg).digest('hex'): a string of HexLen
\* characters determined by (key, msg); distinct inputs give distinct digests.
HmacHex(key, msg) == [present |-> TRUE, len |-> HexLen, key |-> key, msg |-> msg]

\* The first n characters of a header value.
Truncate(h, n) == [h EXCEPT !.len = n]

NoHeader == [present |-> FALSE, len |-> 0, key |-> "", msg |-> <<>>]
EmptyHeader == [present |-> TRUE, len |-> 0, key |-> "", msg |-> <<>>]

\* crypto.timingSafeEqual(Buffer.from(a), Buffer.from(b)): throws a RangeError
\* when the byte lengths differ, otherwise compares the contents.
TimingSafeEqual(a, b) ==
  IF a.len # b.len THEN "throw"
  ELSE IF a = b THEN "true" ELSE "false"

\* MarketplaceAAdapter.validateSignature(payload, signature)
ValidateSignature(payload, signature) ==
  TimingSafeEqual(signature, HmacHex(Secret, payload))

\* ------------------------------------------------------------------- state
VARIABLES
  now,        \* Date.now()
  responses,  \* history: the webhook requests answered so far, each with the
              \* outcome of its signature check, its HTTP status and job id
  jobs,       \* the BullMQ queue: job id -> job, with the position of the
              \* worker that runs it
  lock,       \* Redis keys lock:inventory:{p}: the holder's nonce, or NoLock
  acq,        \* history: job ids in the order their locks were first acquired
  inventory,  \* committed rows of table inventory: <<product, source>> ->
              \* Some(quantity), or Null when there is no row
  audit,      \* committed rows of table inventory_audit, in insertion order
  rowlock,    \* row-level locks of open transactions: key -> job id or NoJob
  events,     \* environment events injected so far
  payload,    \* the argument of a call of an adapter's transform
  record,     \* what that call returned or threw
  isRunning,            \* PollingService.isRunning
  consecutiveFailures,  \* PollingService.consecutiveFailures
  cursor,     \* Redis key marketplace_b:last_timestamp: Some(string) or Null
  polls,      \* the poll() invocations so far, each with its position
  timers,     \* due times of the pending circuit-breaker reset timers
  http,       \* history: the `since` of every GET /inventory/updates issued
  upstream,   \* Marketplace B's inventory updates so far: sku, qty and
              \* last_modified (Unix seconds)
  proc        \* a worker process: up, closing (a signal handler awaits
              \* worker.close()) or exited, and the runs of processJob that
              \* were in progress in it when the signal arrived

adapterVars == <<payload, record>>

pollVars == <<isRunning, consecutiveFailures, cursor, polls, timers, http, upstream>>

vars == <<now, responses, jobs, lock, acq, inventory, audit, rowlock, events,
          adapterVars, pollVars, proc>>

NoLock == <<>>
NoJob == <<>>
Null == <<>>
Some(q) == <<q>>

\* ------------------------------------------------------------------- queue
\* The jobId template of addInventoryUpdate: `${source}-${productId}-${Date.now()}`.
JobId(inv, t) == <<inv.source, inv.productId, t>>

\* A job as queue.add stores it. failedReason is the error of its last
\* failed attempt, nextRunAt the time its backoff delay ends. With it, the
\* position of the processJob call that runs it: pc, the error fn threw,
\* the oldQuantity upsert read, how many times the redlock.acquire call in
\* progress has found the key taken, and how many times this processJob call
\* has attempted a release.
NewJob(inv) ==
  [data |-> inv, state |-> "waiting", attemptsMade |-> 0, stalledCount |-> 0,
   failedReason |-> "", nextRunAt |-> 0,
   pc |-> "idle", err |-> "", oldQuantity |-> Null, tries |-> 0, releases |-> 0]

\* queue.add(name, data, {jobId}): BullMQ ignores an add whose jobId is already
\* a job of the queue and returns that job.
QueueAdd(q, id, inv) ==
  IF id \in DOMAIN q THEN q ELSE q @@ (id :> NewJob(inv))

\* ----------------------------------------------------------------- webhook
\* What the signature check of handleMarketplaceA finds: the header is
\* missing or empty (!signature), or validateSignature's outcome on
\* JSON.stringify(req.body).
SignatureCheck(req) ==
  IF ~req.sig.present \/ req.sig.len = 0 THEN "missing"
  ELSE ValidateSignature(JsonStringify(JsonParse(req.raw)), req.sig)

\* The HTTP status handleMarketplaceA answers with: 401 from the signature
\* branch, 500 from the catch block (validateSignature, transform or the
\* enqueue threw), 202 otherwise.
WebhookStatus(req, redisUp) ==
  LET v == SignatureCheck(req)
  IN IF v \in {"missing", "false"} THEN 401
     ELSE IF v = "throw" THEN 500
     ELSE IF ~SchemaAOk(JsonParse(req.raw)) THEN 500
     ELSE IF ~redisUp THEN 500
     ELSE 202

\* WebhookController.handleMarketplaceA, with inventoryService.processUpdate
\* and queueService.addInventoryUpdate.
MarketplaceAWebhook(req, redisUp) ==
  /\ LET st == WebhookStatus(req, redisUp)
         inv == TransformA(JsonParse(req.raw))
         id == JobId(inv, now)
     IN /\ jobs' = IF st = 202 THEN QueueAdd(jobs, id, inv) ELSE jobs
        /\ responses' = Append(responses,
             [req |-> req, status |-> st, sig |-> SignatureCheck(req),
              jobId |-> IF st = 202 THEN id ELSE NoJob])
  /\ UNCHANGED <<adapterVars, pollVars, proc, now, lock, acq, inventory, audit, rowlock, events>>

\* A webhook of Marketplace A is handled, while the number of requests is
\* below the bound.
HandleMarketplaceA(req, redisUp) ==
  Len(responses) < MaxRequests /\ MarketplaceAWebhook(req, redisUp)

\* The clock advances.
Tick ==
  /\ now < MaxNow
  /\ now' = now + 1
  /\ UNCHANGED <<adapterVars, pollVars, proc, responses, jobs, lock, acq, inventory, audit, rowlock, events>>

\* ---------------------------------------------------------- request inputs
Obj(pcode, stock) ==
  (IF pcode = JNone THEN <<>> ELSE <<Tok("product_code", pcode)>>)
  \o (IF stock = JNone THEN <<>> ELSE <<Tok("available_stock", stock)>>)
  \o <<Tok("timestamp", JStr(ToISOString(1000)))>>

Compact(obj) == <<LBrace>> \o obj \o <<RBrace>>
Spaced(obj) == <<LBrace, Space>> \o obj \o <<RBrace>>

Objects ==
  {Obj(pcode, stock) : pcode \in {JStr("P1"), JInt(7), JNone},
                       stock \in {JInt(1), JInt(-1), JStr("x"), JFrac, JNone}}

RawBodies == {Compact(o) : o \in Objects} \cup {Spaced(o) : o \in Objects}

Headers(raw) ==
  {NoHeader, EmptyHeader,
   HmacHex(Secret, raw),
   HmacHex(Secret, JsonStringify(JsonParse(raw))),
   HmacHex("other", raw),
   Truncate(HmacHex(Secret, JsonStringify(JsonParse(raw))), HexLen - 1)}

Requests == UNION {{[raw |-> raw, sig |-> h] : h \in Headers(raw)} : raw \in RawBodies}

\* Requests of the pipeline specification: well-formed, signed as the server
\* expects.
Signed(raw) == [raw |-> raw, sig |-> HmacHex(Secret, JsonStringify(JsonParse(raw)))]
PipelineRequests == {Signed(Compact(Obj(JStr("P1"), JInt(q)))) : q \in {1, 2}}

\* -------------------------------------------------------------------- init
Init ==
  /\ now = 0
  /\ responses = <<>>
  /\ jobs = <<>>
  /\ lock = [p \in Products |-> NoLock]
  /\ acq = <<>>
  /\ inventory = [k \in Keys |-> Null]
  /\ audit = <<>>
  /\ rowlock = [k \in Keys |-> NoJob]
  /\ events = 0
  /\ payload = [adapter |-> "marketplace_a", obj |-> <<>>]
  /\ record = NotCalled
  /\ isRunning = FALSE
  /\ consecutiveFailures = 0
  /\ cursor = Null
  /\ polls = <<>>
  /\ timers = <<>>
  /\ http = <<>>
  /\ upstream = {}
  /\ proc = [state |-> "up", active |-> {}]

NextWebhook ==
  \/ Tick
  \/ \E req \in Requests, redisUp \in BOOLEAN : HandleMarketplaceA(req, redisUp)

SpecWebhook == Init /\ [][NextWebhook]_vars

\* ------------------------------------------------------------ adapter calls
\* A member of a payload, left out when its value is undefined.
Member(k, v) == IF v = JNone THEN <<>> ELSE <<Tok(k, v)>>

Ids == {JStr("P1"), JStr(""), JInt(7), JNone}
Quantities == {JInt(1), JInt(0), JInt(-1), JStr("x"), JFrac, JNone}
Places == {JNone, JStr("W1"), JInt(3)}

PayloadsA ==
  {Member("product_code", c) \o Member("available_stock", q)
     \o Member("timestamp", t) \o Member("warehouse", w) :
     c \in Ids, q \in Quantities, w \in Places,
     t \in {JStr(ToISOString(1000)), JStr("t"), JInt(1), JNone}}

PayloadsB ==
  {Member("sku", c) \o Member("qty", q)
     \o Member("last_modified", t) \o Member("location_id", w) :
     c \in Ids, q \in Quantities, w \in Places,
     t \in {JInt(1), JInt(-1), JFrac, JStr("1"), JNone}}

AdapterInputs ==
  {[adapter |-> "marketplace_a", obj |-> o] : o \in PayloadsA}
  \cup {[adapter |-> "marketplace_b", obj |-> o] : o \in PayloadsB}

InitAdapters ==
  /\ now = 0
  /\ responses = <<>>
  /\ jobs = <<>>
  /\ lock = [p \in Products |-> NoLock]
  /\ acq = <<>>
  /\ inventory = [k \in Keys |-> Null]
  /\ audit = <<>>
  /\ rowlock = [k \in Keys |-> NoJob]
  /\ events = 0
  /\ payload \in AdapterInputs
  /\ record = NotCalled
  /\ isRunning = FALSE
  /\ consecutiveFailures = 0
  /\ cursor = Null
  /\ polls = <<>>
  /\ timers = <<>>
  /\ http = <<>>
  /\ upstream = {}
  /\ proc = [state |-> "up", active |-> {}]

\* MarketplaceAAdapter.transform(payload) or MarketplaceBAdapter.transform(payload).
TransformCall ==
  /\ ~record.called
  /\ record' = Transform(payload.adapter, payload.obj)
  /\ UNCHANGED <<now, responses, jobs, lock, acq, inventory, audit, rowlock,
                 events, payload, proc, pollVars>>

NextAdapters == TransformCall

SpecAdapters == InitAdapters /\ [][NextAdapters]_vars

\* ----------------------------------------------------------------- polling
\* MarketplaceBAdapter.transformBatch: the records of the payloads transform
\* accepts, in their order.
RECURSIVE TransformBatch(_)
TransformBatch(payloads) ==
  IF payloads = <<>> THEN <<>>
  ELSE LET r == Transform("marketplace_b", Head(payloads))
       IN (IF r.ok THEN <<r.rec>> ELSE <<>>) \o TransformBatch(Tail(payloads))

\* The jobId template of addBatch:
\* `${source}-${productId}-${Date.now()}-${index}`.
BatchJobId(inv, t, index) == <<inv.source, inv.productId, t, index>>

\* queue.addBulk of the records from position index on.
RECURSIVE AddBulk(_, _, _, _)
AddBulk(q, recs, t, index) ==
  IF recs = <<>> THEN q
  ELSE AddBulk(QueueAdd(q, BatchJobId(Head(recs), t, index), Head(recs)),
               Tail(recs), t, index + 1)

\* Math.floor(Date.now() / 1000)
UnixSeconds(t) == t \div 1000

\* parseInt of a string written by Number.prototype.toString.
ParseInt(str) == CHOOSE n \in 0..UnixSeconds(MaxNow + MaxPolls * ResetDelay) : ToString(n) = str

\* getLastProcessedTimestamp: the stored cursor, or one hour ago.
LastProcessedTimestamp ==
  IF cursor # Null /\ cursor[1] # "" THEN ParseInt(cursor[1])
  ELSE UnixSeconds(now) - 3600

\* An item of Marketplace B's response.
ItemB(sku, qty) ==
  Member("sku", sku) \o Member("qty", qty) \o Member("last_modified", JInt(1))

\* What GET /inventory/updates answers: response.data.items, or an error
\* (network error, timeout, 5xx).
NoItems == [ok |-> TRUE, items |-> <<>>]
Items(items) == [ok |-> TRUE, items |-> items]
HttpError == [ok |-> FALSE, items |-> <<>>]
HttpResponses ==
  {NoItems, HttpError,
   Items(<<ItemB(JStr("P1"), JInt(1))>>),
   Items(<<ItemB(JStr("P1"), JInt(1)), ItemB(JNone, JInt(2)), ItemB(JStr("P2"), JInt(2))>>)}

\* A poll() invocation at position pc: started is the instant its cycle
\* began, asked whether it has sent GET /inventory/updates, `since` the
\* cursor it sent, batch the records it transformed, `at` the Date.now()
\* addBatch put in their job ids, stamp the Unix time
\* updateLastProcessedTimestamp computed.
Invocation(pc) ==
  [pc |-> pc, started |-> 0, asked |-> FALSE, since |-> 0, batch |-> <<>>,
   at |-> 0, stamp |-> 0]

\* The invocation of a cycle that begins now.
Cycle == [Invocation("cursor") EXCEPT !.started = now]

\* The positions at which a polling cycle is in progress: awaiting the
\* cursor read, the HTTP response, the enqueue or the cursor write.
CyclePcs == {"cursor", "fetch", "enqueue", "update"}

\* Variant of PollStart without the single-flight guard.
PollStart_NoGuard(kind) ==
  /\ Len(polls) < MaxPolls
  /\ kind = "startup" => polls = <<>>
  /\ IF consecutiveFailures >= MAX_FAILURES
     THEN /\ timers' = Append(timers, now + ResetDelay)
          /\ polls' = Append(polls, Invocation("open"))
          /\ UNCHANGED isRunning
     ELSE /\ isRunning' = TRUE
          /\ polls' = Append(polls, Cycle)
          /\ UNCHANGED timers
  /\ UNCHANGED <<now, responses, jobs, lock, acq, inventory, audit, rowlock,
                 events, adapterVars, proc, upstream, consecutiveFailures, cursor, http>>

\* The payloads of the batches handed to transformBatch, and the batches.
BatchPayloads ==
  {ItemB(JStr("P1"), JInt(1)), ItemB(JStr("P2"), JInt(0)),
   ItemB(JNone, JInt(2)), ItemB(JStr("P1"), JStr("x")), <<>>}

Batches == UNION {[1..n -> BatchPayloads] : n \in 0..MaxBatch}

InitBatch ==
  /\ now = 0
  /\ responses = <<>>
  /\ jobs = <<>>
  /\ lock = [p \in Products |-> NoLock]
  /\ acq = <<>>
  /\ inventory = [k \in Keys |-> Null]
  /\ audit = <<>>
  /\ rowlock = [k \in Keys |-> NoJob]
  /\ events = 0
  /\ payload \in {[adapter |-> "marketplace_b", obj |-> b] : b \in Batches}
  /\ record = NotCalled
  /\ isRunning = FALSE
  /\ consecutiveFailures = 0
  /\ cursor = Null
  /\ polls = <<>>
  /\ timers = <<>>
  /\ http = <<>>
  /\ upstream = {}
  /\ proc = [state |-> "up", active |-> {}]

\* Variant of TransformBatchCall: the batch fails when transform rejects one
\* of its payloads.
TransformBatchCall_FailFast ==
  /\ ~record.called
  /\ record' = IF \A i \in 1..Len(payload.obj) :
                     Transform("marketplace_b", payload.obj[i]).ok
                THEN Returned(TransformBatch(payload.obj)) ELSE Threw
  /\ UNCHANGED <<now, responses, jobs, lock, acq, inventory, audit, rowlock,
                 events, payload, proc, pollVars>>

\* MarketplaceBAdapter.transformBatch(payloads).
TransformBatchCall ==
  /\ ~record.called
  /\ record' = Returned(TransformBatch(payload.obj))
  /\ UNCHANGED <<now, responses, jobs, lock, acq, inventory, audit, rowlock,
                 events, payload, proc, pollVars>>

NextBatch == TransformBatchCall

SpecBatch == InitBatch /\ [][NextBatch]_vars

\* poll() is invoked, by the cron schedule, by start() or by triggerManual,
\* and runs to its first await: it returns at once when a cycle is in
\* progress; it schedules a reset timer and returns when the circuit breaker
\* is open; otherwise it sets isRunning and asks Redis for the cursor.
Poll(kind) ==
  /\ kind = "startup" => polls = <<>>
  /\ IF isRunning
     THEN /\ polls' = Append(polls, Invocation("skipped"))
          /\ UNCHANGED <<isRunning, timers>>
     ELSE IF consecutiveFailures >= MAX_FAILURES
     THEN /\ timers' = Append(timers, now + ResetDelay)
          /\ polls' = Append(polls, Invocation("open"))
          /\ UNCHANGED isRunning
     ELSE /\ isRunning' = TRUE
          /\ polls' = Append(polls, Cycle)
          /\ UNCHANGED timers
  /\ UNCHANGED <<now, responses, jobs, lock, acq, inventory, audit, rowlock,
                 events, adapterVars, proc, upstream, consecutiveFailures, cursor, http>>

\* A poll() invocation, while the number of invocations is below the bound.
PollStart(kind) == Len(polls) < MaxPolls /\ Poll(kind)

\* poll's catch and finally: the failure is counted, isRunning is cleared.
PollFailed(c) ==
  /\ consecutiveFailures' = consecutiveFailures + 1
  /\ isRunning' = FALSE
  /\ polls' = [polls EXCEPT ![c].pc = "failed"]

\* redisClient.get('marketplace_b:last_timestamp') resolves or rejects; with
\* the cursor, poll sends GET /inventory/updates?since=...&limit=100.
PollGetCursor(c, ok) ==
  /\ polls[c].pc = "cursor"
  /\ IF ok
     THEN /\ polls' = [polls EXCEPT ![c].pc = "fetch", ![c].asked = TRUE,
                                     ![c].since = LastProcessedTimestamp]
          /\ http' = Append(http, LastProcessedTimestamp)
          /\ UNCHANGED <<isRunning, consecutiveFailures>>
     ELSE /\ PollFailed(c)
          /\ UNCHANGED http
  /\ UNCHANGED <<now, responses, jobs, lock, acq, inventory, audit, rowlock,
                 events, adapterVars, proc, upstream, cursor, timers>>

\* Variant of PollFetch: the empty-result return leaves isRunning set.
PollFetch_EmptyKeepsRunning(c, resp) ==
  /\ polls[c].pc = "fetch"
  /\ IF ~resp.ok
     THEN PollFailed(c)
     ELSE IF resp.items = <<>>
     THEN /\ consecutiveFailures' = 0
          /\ polls' = [polls EXCEPT ![c].pc = "empty"]
          /\ UNCHANGED isRunning
     ELSE /\ polls' = [polls EXCEPT ![c].pc = "enqueue", ![c].at = now,
                                     ![c].batch = TransformBatch(resp.items)]
          /\ UNCHANGED <<isRunning, consecutiveFailures>>
  /\ UNCHANGED <<now, responses, jobs, lock, acq, inventory, audit, rowlock,
                 events, adapterVars, proc, upstream, cursor, timers, http>>

\* axios.get resolves or rejects. An empty items list ends the cycle with
\* the failure counter cleared; otherwise the items are transformed and
\* handed to processBatch and addBatch, which builds the job ids and calls
\* queue.addBulk.
PollFetch(c, resp) ==
  /\ polls[c].pc = "fetch"
  /\ IF ~resp.ok
     THEN PollFailed(c)
     ELSE IF resp.items = <<>>
     THEN /\ consecutiveFailures' = 0
          /\ isRunning' = FALSE
          /\ polls' = [polls EXCEPT ![c].pc = "empty"]
     ELSE /\ polls' = [polls EXCEPT ![c].pc = "enqueue", ![c].at = now,
                                     ![c].batch = TransformBatch(resp.items)]
          /\ UNCHANGED <<isRunning, consecutiveFailures>>
  /\ UNCHANGED <<now, responses, jobs, lock, acq, inventory, audit, rowlock,
                 events, adapterVars, proc, upstream, cursor, timers, http>>

\* Variant of PollEnqueue: a rejected queue.addBulk still moves the cursor.
PollEnqueue_MovesCursor(c, ok) ==
  /\ polls[c].pc = "enqueue"
  /\ IF ok
     THEN /\ jobs' = AddBulk(jobs, polls[c].batch, polls[c].at, 0)
          /\ polls' = [polls EXCEPT ![c].pc = "update", ![c].stamp = UnixSeconds(now)]
          /\ UNCHANGED <<isRunning, consecutiveFailures, cursor>>
     ELSE /\ PollFailed(c)
          /\ cursor' = Some(ToString(UnixSeconds(now) + 1))
          /\ UNCHANGED jobs
  /\ UNCHANGED <<now, responses, lock, acq, inventory, audit, rowlock,
                 events, adapterVars, proc, upstream, timers, http>>

\* queue.addBulk resolves (the jobs are in the queue) or rejects; after it
\* updateLastProcessedTimestamp takes the current Unix time and sends it to
\* Redis.
PollEnqueue(c, ok) ==
  /\ polls[c].pc = "enqueue"
  /\ IF ok
     THEN /\ jobs' = AddBulk(jobs, polls[c].batch, polls[c].at, 0)
          /\ polls' = [polls EXCEPT ![c].pc = "update", ![c].stamp = UnixSeconds(now)]
          /\ UNCHANGED <<isRunning, consecutiveFailures>>
     ELSE /\ PollFailed(c)
          /\ UNCHANGED jobs
  /\ UNCHANGED <<now, responses, lock, acq, inventory, audit, rowlock,
                 events, adapterVars, proc, upstream, cursor, timers, http>>

\* updateLastProcessedTimestamp: redisClient.set resolves or rejects; the
\* cycle ends.
PollUpdateCursor(c, ok) ==
  /\ polls[c].pc = "update"
  /\ IF ok
     THEN /\ cursor' = Some(ToString(polls[c].stamp))
          /\ consecutiveFailures' = 0
          /\ isRunning' = FALSE
          /\ polls' = [polls EXCEPT ![c].pc = "done"]
     ELSE /\ PollFailed(c)
          /\ UNCHANGED cursor
  /\ UNCHANGED <<now, responses, jobs, lock, acq, inventory, audit, rowlock,
                 events, adapterVars, proc, upstream, timers, http>>

\* Variant of ResetTimer that fires without waiting for the delay to pass.
ResetTimer_Early ==
  /\ timers # <<>>
  /\ timers' = Tail(timers)
  /\ consecutiveFailures' = 0
  /\ UNCHANGED <<now, responses, jobs, lock, acq, inventory, audit, rowlock,
                 events, adapterVars, proc, upstream, isRunning, cursor, polls, http>>

\* A reset timer scheduled by the circuit breaker fires, ResetDelay after it
\* was set.
ResetTimer ==
  /\ timers # <<>>
  /\ now' = IF now < Head(timers) THEN Head(timers) ELSE now
  /\ timers' = Tail(timers)
  /\ consecutiveFailures' = 0
  /\ UNCHANGED <<responses, jobs, lock, acq, inventory, audit, rowlock,
                 events, adapterVars, proc, upstream, isRunning, cursor, polls, http>>

NextPoll ==
  \/ Tick
  \/ \E kind \in {"startup", "cron", "manual"} : PollStart(kind)
  \/ \E c \in 1..Len(polls) :
       \/ \E ok \in BOOLEAN : PollGetCursor(c, ok)
       \/ \E resp \in HttpResponses : PollFetch(c, resp)
       \/ \E ok \in BOOLEAN : PollEnqueue(c, ok)
       \/ \E ok \in BOOLEAN : PollUpdateCursor(c, ok)
  \/ ResetTimer

SpecPoll == Init /\ [][NextPoll]_vars

\* Polling while Marketplace B is down: Redis answers, every GET
\* /inventory/updates fails, the cron schedule keeps invoking poll().
\* The cron schedule invokes poll() every CronPeriod, the first time at
\* startup.
OutagePoll ==
  /\ Len(polls) < MaxOutagePolls
  /\ now = Len(polls) * CronPeriod
  /\ Poll("cron")

\* Five minutes pass, once this period's invocation has been made, its
\* cycle has ended (the HTTP request times out after 10 s) and the timers
\* that are due have fired.
CronTick ==
  /\ now < Len(polls) * CronPeriod
  /\ ~isRunning
  /\ IF timers = <<>> THEN TRUE ELSE Head(timers) > now
  /\ now' = now + CronPeriod
  /\ UNCHANGED <<responses, jobs, lock, acq, inventory, audit, rowlock,
                 events, adapterVars, proc, pollVars>>

\* A reset timer that is due fires.
TimerDue == timers # <<>> /\ now >= Head(timers) /\ ResetTimer

NextOutage ==
  \/ CronTick
  \/ OutagePoll
  \/ \E c \in 1..Len(polls) :
       \/ PollGetCursor(c, TRUE)
       \/ PollFetch(c, HttpError)
  \/ TimerDue

SpecOutage == Init /\ [][NextOutage]_vars

\* Polling against Marketplace B's inventory as it changes.
\* An update of Marketplace B's inventory: item sku was set to qty at Unix
\* time last_modified.
Update(sku, qty, t) == [sku |-> sku, qty |-> qty, last_modified |-> t]

\* The item of response.data.items that reports the update.
ItemOf(u) ==
  Member("sku", JStr(u.sku)) \o Member("qty", JInt(u.qty))
    \o Member("last_modified", JInt(u.last_modified))

\* The items of a set of updates, oldest first.
RECURSIVE Ordered(_)
Ordered(S) ==
  IF S = {} THEN <<>>
  ELSE LET u == CHOOSE x \in S : \A y \in S : x.last_modified <= y.last_modified
       IN <<ItemOf(u)>> \o Ordered(S \ {u})

\* What GET /inventory/updates?since=...&limit=100 answers: the updates
\* later than `since`, at most `limit` of them.
Answer(since) ==
  LET all == Ordered({u \in upstream : u.last_modified > since})
  IN Items(SubSeq(all, 1, IF Len(all) < limit THEN Len(all) ELSE limit))

\* An item of Marketplace B is modified.
UpstreamUpdate(sku) ==
  /\ Cardinality(upstream) < MaxUpdates
  /\ Update(sku, 1, UnixSeconds(now)) \notin upstream
  /\ upstream' = upstream \cup {Update(sku, 1, UnixSeconds(now))}
  /\ UNCHANGED <<now, responses, jobs, lock, acq, inventory, audit, rowlock,
                 events, adapterVars, proc, isRunning, consecutiveFailures, cursor,
                 polls, timers, http>>

\* A second passes.
Second ==
  /\ now < MaxSeconds * 1000
  /\ now' = now + 1000
  /\ UNCHANGED <<responses, jobs, lock, acq, inventory, audit, rowlock,
                 events, adapterVars, proc, pollVars>>

\* The cron schedule invokes poll().
CursorPoll == Len(polls) < MaxCursorPolls /\ Poll("cron")

NextCursor ==
  \/ Second
  \/ \E sku \in Products : UpstreamUpdate(sku)
  \/ CursorPoll
  \/ \E c \in 1..Len(polls) :
       \/ PollGetCursor(c, TRUE)
       \/ PollFetch(c, Answer(polls[c].since))
       \/ PollEnqueue(c, TRUE)
       \/ PollUpdateCursor(c, TRUE)

SpecCursor == Init /\ [][NextCursor]_vars

\* Polling with failures while the seconds pass: Redis, Marketplace B and
\* the queue answer or fail.
NextFailing ==
  \/ Second
  \/ \E kind \in {"startup", "cron", "manual"} : PollStart(kind)
  \/ \E c \in 1..Len(polls) :
       \/ \E ok \in BOOLEAN : PollGetCursor(c, ok)
       \/ \E resp \in HttpResponses : PollFetch(c, resp)
       \/ \E ok \in BOOLEAN : PollEnqueue(c, ok)
       \/ \E ok \in BOOLEAN : PollUpdateCursor(c, ok)
  \/ ResetTimer

SpecFailing == Init /\ [][NextFailing]_vars

\* ------------------------------------------------------------------ worker
Key(inv) == <<inv.productId, inv.source>>

\* The random value Redlock writes under the key: one per acquisition.
Nonce(id) == <<id, jobs[id].attemptsMade + jobs[id].stalledCount>>

\* Positions inside the function executeUpdate passes to withLock, i.e. inside
\* inventoryRepository.upsert.
FnSteps == {"select", "insert", "commit"}

\* processJob is running for the job in a live worker process.
Running(id) == jobs[id].state = "active" /\ jobs[id].pc # "dead"

RunningJobs == {id \in DOMAIN jobs : Running(id)}

Unlocked(rl, id) == [k \in Keys |-> IF rl[k] = id THEN NoJob ELSE rl[k]]

RowFree(key, id) == rowlock[key] \in {NoJob, id}

TakeRow(key, id) == [rowlock EXCEPT ![key] = id]

\* BullMQ moves a waiting job to active and calls processJob in a worker that
\* runs fewer than `concurrency` jobs.
Dispatch(id) ==
  /\ jobs[id].state = "waiting"
  /\ Cardinality(RunningJobs) < concurrency * Cardinality(Workers)
  /\ jobs' = [jobs EXCEPT ![id].state = "active", ![id].pc = "acquire",
                          ![id].err = "", ![id].oldQuantity = Null,
                          ![id].tries = 0, ![id].releases = 0]
  /\ UNCHANGED <<adapterVars, pollVars, proc, now, responses, lock, acq, inventory, audit, rowlock, events>>

\* acquireLock: redlock.acquire sets the key when it is absent.
AcquireLock(id) ==
  /\ Running(id) /\ jobs[id].pc = "acquire"
  /\ lock[jobs[id].data.productId] = NoLock
  /\ lock' = [lock EXCEPT ![jobs[id].data.productId] = Nonce(id)]
  /\ acq' = IF \E i \in 1..Len(acq) : acq[i] = id THEN acq ELSE Append(acq, id)
  /\ jobs' = [jobs EXCEPT ![id].pc = "select", ![id].tries = 0]
  /\ UNCHANGED <<adapterVars, pollVars, proc, now, responses, inventory, audit, rowlock, events>>

\* Variant of LockExpire: a key whose holder is gone never expires.
LockExpire_HeldOnly(p) ==
  /\ lock[p] # NoLock
  /\ \E id \in DOMAIN jobs :
       /\ Running(id) /\ jobs[id].pc \in FnSteps \cup {"release"}
       /\ Nonce(id) = lock[p]
  /\ events < MaxEvents
  /\ events' = events + 1
  /\ lock' = [lock EXCEPT ![p] = NoLock]
  /\ UNCHANGED <<adapterVars, pollVars, proc, now, responses, jobs, acq, inventory, audit, rowlock>>

\* The key's TTL runs out. While its holder is still running this takes one
\* of the environment events (the holder was slow); a key left behind
\* expires in any case.
LockExpire(p) ==
  /\ lock[p] # NoLock
  /\ LET held == \E id \in DOMAIN jobs :
                    /\ Running(id) /\ jobs[id].pc \in FnSteps \cup {"release"}
                    /\ Nonce(id) = lock[p]
     IN IF held THEN events < MaxEvents /\ events' = events + 1
        ELSE events' = events
  /\ lock' = [lock EXCEPT ![p] = NoLock]
  /\ UNCHANGED <<adapterVars, pollVars, proc, now, responses, jobs, acq, inventory, audit, rowlock>>

\* upsert: pool.connect(), BEGIN, then SELECT ... FOR UPDATE, which locks
\* the committed row, waiting for another transaction that holds it;
\* oldQuantity is rows[0]?.quantity || null.
UpsertSelect(id) ==
  /\ Running(id) /\ jobs[id].pc = "select"
  /\ LET key == Key(jobs[id].data)
     IN IF inventory[key] # Null
        THEN /\ RowFree(key, id)
             /\ rowlock' = TakeRow(key, id)
             /\ jobs' = [jobs EXCEPT ![id].pc = "insert",
                    ![id].oldQuantity =
                       IF inventory[key] = Some(0) THEN Null ELSE inventory[key]]
        ELSE /\ rowlock' = rowlock
             /\ jobs' = [jobs EXCEPT ![id].pc = "insert", ![id].oldQuantity = Null]
  /\ UNCHANGED <<adapterVars, pollVars, proc, now, responses, lock, acq, inventory, audit, events>>

\* The audit row the transaction inserts.
AuditRow(id) ==
  [product_id |-> jobs[id].data.productId,
   old_quantity |-> jobs[id].oldQuantity,
   new_quantity |-> jobs[id].data.quantity,
   source |-> jobs[id].data.source]

\* The inventory table once the transaction's row is written.
Written(inv, id) == [inv EXCEPT ![Key(jobs[id].data)] = Some(jobs[id].data.quantity)]

\* Variant of UpsertInsert: the row is written outside the transaction, so it
\* is visible (and stays) before COMMIT.
UpsertInsert_AutoCommit(id) ==
  /\ Running(id) /\ jobs[id].pc = "insert"
  /\ RowFree(Key(jobs[id].data), id)
  /\ inventory' = Written(inventory, id)
  /\ rowlock' = TakeRow(Key(jobs[id].data), id)
  /\ jobs' = [jobs EXCEPT ![id].pc = "commit"]
  /\ UNCHANGED <<adapterVars, pollVars, proc, now, responses, lock, acq, audit, events>>

\* Variant of UpsertInsert: table inventory without CHECK (quantity >= 0).
UpsertInsert_NoCheck(id) ==
  /\ Running(id) /\ jobs[id].pc = "insert"
  /\ RowFree(Key(jobs[id].data), id)
  /\ rowlock' = TakeRow(Key(jobs[id].data), id)
  /\ jobs' = [jobs EXCEPT ![id].pc = "commit"]
  /\ UNCHANGED <<adapterVars, pollVars, proc, now, responses, lock, acq, inventory, audit, events>>

\* upsert: INSERT ... ON CONFLICT DO UPDATE, then INSERT INTO inventory_audit,
\* both inside the transaction. The first waits for another transaction
\* writing the same (product_id, source), and fails on CHECK (quantity >= 0).
UpsertInsert(id) ==
  /\ Running(id) /\ jobs[id].pc = "insert"
  /\ RowFree(Key(jobs[id].data), id)
  /\ IF jobs[id].data.quantity < 0
     THEN /\ rowlock' = Unlocked(rowlock, id)
          /\ jobs' = [jobs EXCEPT ![id].pc = "release", ![id].err = "check"]
     ELSE /\ rowlock' = TakeRow(Key(jobs[id].data), id)
          /\ jobs' = [jobs EXCEPT ![id].pc = "commit"]
  /\ UNCHANGED <<adapterVars, pollVars, proc, now, responses, lock, acq, inventory, audit, events>>

\* Variant of UpsertCommit: the audit insert is left out.
UpsertCommit_NoAudit(id) ==
  /\ Running(id) /\ jobs[id].pc = "commit"
  /\ inventory' = Written(inventory, id)
  /\ rowlock' = Unlocked(rowlock, id)
  /\ jobs' = [jobs EXCEPT ![id].pc = "release"]
  /\ UNCHANGED <<adapterVars, pollVars, proc, now, responses, lock, acq, audit, events>>

\* upsert: COMMIT makes the row and its audit row visible together.
UpsertCommit(id) ==
  /\ Running(id) /\ jobs[id].pc = "commit"
  /\ inventory' = Written(inventory, id)
  /\ audit' = Append(audit, AuditRow(id))
  /\ rowlock' = Unlocked(rowlock, id)
  /\ jobs' = [jobs EXCEPT ![id].pc = "release"]
  /\ UNCHANGED <<adapterVars, pollVars, proc, now, responses, lock, acq, events>>

\* Variant of UpsertFail: a failure after the inserts leaves the audit row
\* behind.
UpsertFail_KeepsAudit(id) ==
  /\ Running(id) /\ jobs[id].pc \in FnSteps
  /\ events < MaxEvents
  /\ events' = events + 1
  /\ audit' = IF jobs[id].pc = "commit" THEN Append(audit, AuditRow(id)) ELSE audit
  /\ rowlock' = Unlocked(rowlock, id)
  /\ jobs' = [jobs EXCEPT ![id].pc = "release", ![id].err = jobs[id].pc]
  /\ UNCHANGED <<adapterVars, pollVars, proc, now, responses, lock, acq, inventory>>

\* upsert: a query (or pool.connect) rejects; the catch block sends ROLLBACK
\* and rethrows.
UpsertFail(id) ==
  /\ Running(id) /\ jobs[id].pc \in FnSteps
  /\ events < MaxEvents
  /\ events' = events + 1
  /\ rowlock' = Unlocked(rowlock, id)
  /\ jobs' = [jobs EXCEPT ![id].pc = "release", ![id].err = jobs[id].pc]
  /\ UNCHANGED <<adapterVars, pollVars, proc, now, responses, lock, acq, inventory, audit>>

RECURSIVE Pow2(_)
Pow2(n) == IF n <= 0 THEN 1 ELSE 2 * Pow2(n - 1)

\* Variant of Backoff: a delay that grows linearly.
Backoff_Linear(attemptsMade) == attemptsMade * backoffDelay

\* BullMQ's built-in exponential backoff: 2^(attemptsMade - 1) * delay, with
\* attemptsMade counting the attempt that just failed.
Backoff(attemptsMade) == Pow2(attemptsMade - 1) * backoffDelay

\* What BullMQ does with the job when processJob has returned (err = "") or
\* thrown at time t: completed, or one more attempt counted and the job
\* delayed for a retry, or failed after `attempts` attempts.
Settled(job, err, t) ==
  [job EXCEPT
     !.pc = "idle", !.err = err,
     !.attemptsMade = IF err = "" THEN @ ELSE @ + 1,
     !.failedReason = IF err = "" THEN @ ELSE err,
     !.nextRunAt = IF err # "" /\ job.attemptsMade + 1 < attempts
                   THEN t + Backoff(job.attemptsMade + 1) ELSE @,
     !.state = IF err = "" THEN "completed"
               ELSE IF job.attemptsMade + 1 < attempts THEN "delayed"
               ELSE "failed"]

\* acquireLock: redlock.acquire finds the key taken and, having retried
\* fewer than retryCount times, sleeps retryDelay plus jitter and tries
\* again. The caller's retries and retryDelay are not passed to Redlock.
AcquireRetry(id) ==
  /\ Running(id) /\ jobs[id].pc = "acquire"
  /\ lock[jobs[id].data.productId] # NoLock
  /\ jobs[id].tries < retryCount
  /\ jobs' = [jobs EXCEPT ![id].tries = @ + 1]
  /\ UNCHANGED <<adapterVars, pollVars, proc, now, responses, lock, acq, inventory, audit, rowlock, events>>

\* acquireLock: the key is still taken at the attempt after the last retry;
\* redlock.acquire rejects, acquireLock throws, withLock never calls fn, and
\* processJob rethrows.
AcquireFails(id) ==
  /\ Running(id) /\ jobs[id].pc = "acquire"
  /\ lock[jobs[id].data.productId] # NoLock
  /\ jobs[id].tries = retryCount
  /\ jobs' = [jobs EXCEPT ![id] = [Settled(jobs[id], "lock", now) EXCEPT !.tries = 0]]
  /\ UNCHANGED <<adapterVars, pollVars, proc, now, responses, lock, acq, inventory, audit, rowlock>>

\* The acquisition fails because the key's holder was slow: one of the
\* environment events.
LockUnavailable(id) ==
  /\ events < MaxEvents
  /\ events' = events + 1
  /\ AcquireFails(id)

\* Variant of ReleaseLock: the release follows fn inside the try block, not
\* in a finally, so it is skipped when fn throws.
ReleaseLock_NotOnThrow(id) ==
  /\ Running(id) /\ jobs[id].pc = "release"
  /\ lock' = IF lock[jobs[id].data.productId] = Nonce(id) /\ jobs[id].err = ""
             THEN [lock EXCEPT ![jobs[id].data.productId] = NoLock]
             ELSE lock
  /\ jobs' = [jobs EXCEPT ![id] =
       [Settled(jobs[id], jobs[id].err, now) EXCEPT
          !.releases = IF jobs[id].err = "" THEN @ + 1 ELSE @]]
  /\ UNCHANGED <<adapterVars, pollVars, proc, now, responses, acq, inventory, audit, rowlock, events>>

\* Variant of ReleaseLock: the key is deleted whatever value it holds.
ReleaseLock_Blind(id) ==
  /\ Running(id) /\ jobs[id].pc = "release"
  /\ lock' = [lock EXCEPT ![jobs[id].data.productId] = NoLock]
  /\ jobs' = [jobs EXCEPT ![id] =
       [Settled(jobs[id], jobs[id].err, now) EXCEPT !.releases = @ + 1]]
  /\ UNCHANGED <<adapterVars, pollVars, proc, now, responses, acq, inventory, audit, rowlock, events>>

\* withLock's finally: releaseLock deletes the key if it still holds this
\* acquisition's value (a failed release is logged and swallowed); then
\* withLock and processJob return or rethrow what fn did.
ReleaseLock(id) ==
  /\ Running(id) /\ jobs[id].pc = "release"
  /\ lock' = IF lock[jobs[id].data.productId] = Nonce(id)
             THEN [lock EXCEPT ![jobs[id].data.productId] = NoLock]
             ELSE lock
  /\ jobs' = [jobs EXCEPT ![id] =
       [Settled(jobs[id], jobs[id].err, now) EXCEPT !.releases = @ + 1]]
  /\ UNCHANGED <<adapterVars, pollVars, proc, now, responses, acq, inventory, audit, rowlock, events>>

\* The backoff delay of a delayed job has passed: the clock has reached the
\* job's nextRunAt and the queue moves it to waiting.
Promote(id) ==
  /\ jobs[id].state = "delayed"
  /\ now' = IF now < jobs[id].nextRunAt THEN jobs[id].nextRunAt ELSE now
  /\ jobs' = [jobs EXCEPT ![id].state = "waiting"]
  /\ UNCHANGED <<adapterVars, pollVars, proc, responses, lock, acq, inventory, audit, rowlock, events>>

\* A worker process dies (and is started again). S is the set of jobs it was
\* running: they stay active in the queue, PostgreSQL aborts their open
\* transactions, their Redis lock keys stay until the TTL.
Crash(S) ==
  /\ S # {}
  /\ Cardinality(S) <= concurrency
  /\ events < MaxEvents
  /\ events' = events + 1
  /\ jobs' = [id \in DOMAIN jobs |->
                IF id \in S THEN [jobs[id] EXCEPT !.pc = "dead"] ELSE jobs[id]]
  /\ rowlock' = [k \in Keys |-> IF rowlock[k] \in S THEN NoJob ELSE rowlock[k]]
  /\ UNCHANGED <<adapterVars, pollVars, proc, now, responses, lock, acq, inventory, audit>>

\* Variant of StallCheck: a stalled job is failed at once, never re-queued.
StallCheck_AlwaysFail(id) ==
  /\ jobs[id].state = "active" /\ jobs[id].pc = "dead"
  /\ jobs' = [jobs EXCEPT ![id].pc = "idle", ![id].stalledCount = @ + 1,
                          ![id].state = "failed"]
  /\ UNCHANGED <<adapterVars, pollVars, proc, now, responses, lock, acq, inventory, audit, rowlock, events>>

\* BullMQ's stalled-jobs check, run by the workers: an active job whose
\* worker no longer renews it goes back to waiting, or to failed once it has
\* stalled more than maxStalledCount times.
StallCheck(id) ==
  /\ jobs[id].state = "active" /\ jobs[id].pc = "dead"
  /\ jobs' = [jobs EXCEPT
       ![id].pc = "idle",
       ![id].stalledCount = @ + 1,
       ![id].state = IF jobs[id].stalledCount < maxStalledCount
                     THEN "waiting" ELSE "failed"]
  /\ UNCHANGED <<adapterVars, pollVars, proc, now, responses, lock, acq, inventory, audit, rowlock, events>>

\* The webhooks of the pipeline specification arrive once each.
Sent(req) == \E i \in 1..Len(responses) : responses[i].req = req

\* A step of a worker, of the queue's timers or of the environment.
Work ==
  \/ \E id \in DOMAIN jobs :
       \/ Dispatch(id)
       \/ AcquireLock(id)
       \/ AcquireRetry(id)
       \/ LockUnavailable(id)
       \/ UpsertSelect(id)
       \/ UpsertInsert(id)
       \/ UpsertCommit(id)
       \/ UpsertFail(id)
       \/ ReleaseLock(id)
       \/ Promote(id)
       \/ StallCheck(id)
  \/ \E p \in Products : LockExpire(p)
  \/ \E S \in SUBSET RunningJobs : Crash(S)

\* The webhook req arrives, once, within the first MaxNow milliseconds.
Arrives(req) == ~Sent(req) /\ now <= MaxNow /\ HandleMarketplaceA(req, TRUE)

Next ==
  \/ Tick
  \/ \E req \in PipelineRequests : Arrives(req)
  \/ Work

Spec == Init /\ [][Next]_vars

\* The pipeline fed with one update the database refuses (quantity -1) and
\* one it accepts.
RetryRequests == {Signed(Compact(Obj(JStr("P1"), JInt(q)))) : q \in {-1, 1}}

NextRetry ==
  \/ Tick
  \/ \E req \in RetryRequests : Arrives(req)
  \/ Work

SpecRetry == Init /\ [][NextRetry]_vars

\* The pipeline fed with webhooks that Marketplace A may deliver more than
\* once, one of them reporting quantity 0.
ReplayRequests == {Signed(Compact(Obj(JStr("P1"), JInt(q)))) : q \in {0, 1}}

\* A webhook arrives, for the first time or again.
Delivered(req) == now <= MaxNow /\ HandleMarketplaceA(req, TRUE)

NextReplay ==
  \/ Tick
  \/ \E req \in ReplayRequests : Delivered(req)
  \/ Work

SpecReplay == Init /\ [][NextReplay]_vars

\* The job ids addInventoryUpdate can produce within the bounds.
JobIds == {<<"marketplace_a", p, t>> : p \in Products, t \in 0..MaxNow}

\* The pipeline with its scheduling: a running processJob takes its next
\* step, the queue's timers (dispatch, backoff, stalled-jobs check) fire,
\* and a Redis key past its TTL goes away.
Fairness ==
  /\ \A id \in JobIds :
       /\ WF_vars(id \in DOMAIN jobs /\ Dispatch(id))
       /\ WF_vars(id \in DOMAIN jobs /\ AcquireLock(id))
       /\ WF_vars(id \in DOMAIN jobs /\ UpsertSelect(id))
       /\ WF_vars(id \in DOMAIN jobs /\ UpsertInsert(id))
       /\ WF_vars(id \in DOMAIN jobs /\ UpsertCommit(id))
       /\ WF_vars(id \in DOMAIN jobs /\ ReleaseLock(id))
       /\ WF_vars(id \in DOMAIN jobs /\ Promote(id))
       /\ WF_vars(id \in DOMAIN jobs /\ StallCheck(id))
  /\ \A p \in Products : WF_vars(LockExpire(p))

FairSpec == Spec /\ Fairness

FairRetry == SpecRetry /\ Fairness

\* -------------------------------------------------------------- contention
\* Webhooks for one product keep arriving while Redis, PostgreSQL and the
\* workers are healthy: no crash, no failed query, no key that expires under
\* its holder.
ContentionRequests == {Signed(Compact(Obj(JStr("P1"), JInt(1))))}

\* A webhook for the product arrives, in a millisecond in which none has.
Flood(req) ==
  /\ Len(responses) < MaxContenders
  /\ JobId(TransformA(JsonParse(req.raw)), now) \notin DOMAIN jobs
  /\ MarketplaceAWebhook(req, TRUE)

\* The acquisition fails because other jobs held the key at each of its
\* retryCount + 1 attempts.
Contended(id) == AcquireFails(id) /\ UNCHANGED events

\* Some job holds the product lock: it is inside fn or about to release.
Holding == \E id \in DOMAIN jobs : Running(id) /\ jobs[id].pc \in FnSteps \cup {"release"}

\* A backoff delay ends. The database is healthy: no transaction lasts as
\* long as a backoff delay, so the holders have released by then.
BackoffEnds(id) == ~Holding /\ Promote(id)

NextContention ==
  \/ Tick
  \/ \E req \in ContentionRequests : Flood(req)
  \/ \E id \in DOMAIN jobs :
       \/ Dispatch(id)
       \/ AcquireLock(id)
       \/ AcquireRetry(id)
       \/ Contended(id)
       \/ UpsertSelect(id)
       \/ UpsertInsert(id)
       \/ UpsertCommit(id)
       \/ ReleaseLock(id)
       \/ BackoffEnds(id)

SpecContention == Init /\ [][NextContention]_vars

\* ---------------------------------------------------------------- shutdown
\* The run of processJob that is in progress for the job.
Run(id) == <<id, jobs[id].attemptsMade + jobs[id].stalledCount>>

\* That run is still in progress in a live process.
InProgress(r) == r[1] \in DOMAIN jobs /\ Running(r[1]) /\ Run(r[1]) = r

\* SIGTERM or SIGINT reaches a worker process that runs the jobs S: the
\* handler calls worker.close(), which stops the worker from fetching jobs
\* and resolves when the runs in progress have ended.
Signal(S) ==
  /\ proc.state = "up"
  /\ Cardinality(S) <= concurrency
  /\ proc' = [state |-> "closing", active |-> {Run(id) : id \in S}]
  /\ UNCHANGED <<adapterVars, pollVars, now, responses, jobs, lock, acq,
                 inventory, audit, rowlock, events>>

\* Variant of Exit: process.exit(0) without awaiting worker.close(); the
\* runs in progress die with the process.
Exit_NoAwait ==
  /\ proc.state = "closing"
  /\ proc' = [proc EXCEPT !.state = "exited"]
  /\ jobs' = [id \in DOMAIN jobs |->
                IF InProgress(Run(id)) /\ Run(id) \in proc.active
                THEN [jobs[id] EXCEPT !.pc = "dead"] ELSE jobs[id]]
  /\ rowlock' = [k \in Keys |->
                   IF rowlock[k] # NoJob /\ Run(rowlock[k]) \in proc.active
                   THEN NoJob ELSE rowlock[k]]
  /\ UNCHANGED <<adapterVars, pollVars, now, responses, lock, acq,
                 inventory, audit, events>>

\* worker.close() has resolved, no run being in progress in the process any
\* more, and the handler calls process.exit(0).
Exit ==
  /\ proc.state = "closing"
  /\ \A r \in proc.active : ~InProgress(r)
  /\ proc' = [proc EXCEPT !.state = "exited"]
  /\ UNCHANGED <<adapterVars, pollVars, now, responses, jobs, lock, acq,
                 inventory, audit, rowlock, events>>

\* The pipeline fed with one update while a worker process is shut down.
ShutdownRequests == {Signed(Compact(Obj(JStr("P1"), JInt(1))))}

NextShutdown ==
  \/ Tick
  \/ \E req \in ShutdownRequests : Arrives(req)
  \/ Work
  \/ \E S \in SUBSET RunningJobs : Signal(S)
  \/ Exit

SpecShutdown == Init /\ [][NextShutdown]_vars

\* The shutdown with the pipeline's scheduling: the handler resumes once
\* worker.close() has resolved.
FairShutdown == SpecShutdown /\ Fairness /\ WF_vars(Exit)

\* ------------------------------------------------------------------ claims
\* processJob is inside the function passed to withLock, i.e. inside upsert.
InFn(id) == Running(id) /\ jobs[id].pc \in FnSteps

InFnFor(p) == {id \in DOMAIN jobs : InFn(id) /\ jobs[id].data.productId = p}

AuditOf(p) == SelectSeq(audit, LAMBDA r : r.product_id = p)

AcqOf(p) == SelectSeq(acq, LAMBDA id : jobs[id].data.productId = p)

JobsOf(p) == {id \in DOMAIN jobs : jobs[id].data.productId = p}

\* Every job ran once, without a failed attempt or a stall, and completed.
AllSucceeded ==
  \A id \in DOMAIN jobs :
    /\ jobs[id].state = "completed"
    /\ jobs[id].attemptsMade = 0
    /\ jobs[id].stalledCount = 0

\* C1: in every reachable state, for every product p, at most one job is
\* executing the function passed to withLock(p, ...).
C1_AtMostOneInFn == \A p \in Products : Cardinality(InFnFor(p)) <= 1

\* C2: when the K jobs of a product all succeed, the audit log holds exactly
\* K rows for it, in the order the locks were acquired, and the inventory
\* row holds the quantity of the job whose lock was acquired last.
C2_AuditInLockOrder ==
  AllSucceeded =>
    \A p \in Products :
      JobsOf(p) # {} =>
        /\ Len(AuditOf(p)) = Cardinality(JobsOf(p))
        /\ Len(AcqOf(p)) = Len(AuditOf(p))
        /\ \A i \in 1..Len(AuditOf(p)) :
             AuditOf(p)[i].new_quantity = jobs[AcqOf(p)[i]].data.quantity
        /\ LET last == AcqOf(p)[Len(AcqOf(p))]
           IN inventory[Key(jobs[last].data)] = Some(jobs[last].data.quantity)

\* C3: audit coverage. Every committed inventory row has an audit row with
\* the same product_id and source whose new_quantity is the row's quantity.
C3_AuditCoverage ==
  \A k \in Keys :
    inventory[k] # Null =>
      \E i \in 1..Len(audit) :
        /\ audit[i].product_id = k[1]
        /\ audit[i].source = k[2]
        /\ Some(audit[i].new_quantity) = inventory[k]

\* C3 witness: a row that was overwritten, so that the audit log also holds
\* a row with another quantity.
C3_Witness ==
  \E k \in Keys :
    /\ inventory[k] # Null
    /\ \E i \in 1..Len(audit) :
         /\ audit[i].product_id = k[1]
         /\ Some(audit[i].new_quantity) # inventory[k]

\* The upsert call of job id ends in this step.
UpsertEnds(id) == InFn(id) /\ ~InFn(id)'

\* The upsert call of job id commits in this step: the row and its audit row
\* appear together.
Commits(id) ==
  /\ InFn(id) /\ jobs[id].pc = "commit"
  /\ jobs'[id].pc = "release" /\ jobs'[id].err = ""
  /\ inventory' = Written(inventory, id)
  /\ audit' = Append(audit, AuditRow(id))

\* C4: upsert is atomic. A step changes the tables only as the commit of one
\* upsert, which adds the row and its audit row together; an upsert that
\* ends otherwise (a query failed, or the process died) leaves both tables
\* and the row locks as they were without it, and its error reaches the
\* queue: the job is not completed by that attempt.
C4_Step ==
  /\ (inventory' # inventory \/ audit' # audit) => \E id \in DOMAIN jobs : Commits(id)
  /\ \A id \in DOMAIN jobs :
       UpsertEnds(id) /\ ~Commits(id) =>
         /\ inventory' = inventory /\ audit' = audit
         /\ \A k \in Keys : rowlock'[k] # id
         /\ jobs'[id].pc = "dead" \/ jobs'[id].err # ""
  /\ \A id \in DOMAIN jobs :
       jobs[id].state # "completed" /\ jobs'[id].state = "completed"
         => jobs[id].err = ""

C4_UpsertAtomic == [][C4_Step]_vars

\* C4 witness: an upsert failed at COMMIT, after both inserts, and the tables
\* are as they were.
C4_Witness ==
  \E id \in DOMAIN jobs :
    /\ jobs[id].pc = "release" /\ jobs[id].err = "commit"
    /\ inventory[Key(jobs[id].data)] = Null
    /\ audit = <<>>

\* The job is active in the queue but the worker that ran it has died.
Stalled(id) == id \in DOMAIN jobs /\ jobs[id].state = "active" /\ jobs[id].pc = "dead"

Known(id) ==
  /\ id \in DOMAIN jobs
  /\ jobs[id].state \in {"waiting", "active", "delayed", "completed", "failed"}

\* C5 as stated: whenever a job is active in a worker that crashed, the stall
\* check makes it eligible again (it leaves the stalled state to waiting).
C5_StalledJobRequeued ==
  [][\A id \in DOMAIN jobs :
       Stalled(id) /\ ~Stalled(id)' => jobs'[id].state = "waiting"]_vars

\* C5 amended: a job that is active in a crashed worker and has stalled fewer
\* than maxStalledCount times is eventually run by a worker again; one that has
\* already stalled maxStalledCount times is moved to failed by the stall
\* check; and no enqueued job ever leaves the queue's five states.
C5_Redelivery ==
  /\ \A id \in JobIds :
       (Stalled(id) /\ jobs[id].stalledCount < maxStalledCount)
          ~> (id \in DOMAIN jobs /\ Running(id))
  /\ [][\A id \in DOMAIN jobs :
          /\ Known(id)'
          /\ (Stalled(id) /\ ~Stalled(id)') =>
               jobs'[id].state =
                 (IF jobs[id].stalledCount < maxStalledCount
                  THEN "waiting" ELSE "failed")]_vars

\* C5 witness: a job that stalled once is running again.
C5_Witness ==
  \E id \in DOMAIN jobs : Running(id) /\ jobs[id].stalledCount = 1

Accepted == {i \in 1..Len(responses) : responses[i].status = 202}

AcceptedFor(p) ==
  {i \in Accepted : TransformA(JsonParse(responses[i].req.raw)).productId = p}

\* C6: once processed, every webhook answered 202 has its own audit row (as
\* many audit rows for a product as 202 answers for it), and the inventory
\* row holds the new_quantity of the product's last audit row.
C6_OwnAuditRowPerWebhook ==
  AllSucceeded =>
    \A p \in Products :
      /\ Len(AuditOf(p)) = Cardinality(AcceptedFor(p))
      /\ Len(AuditOf(p)) > 0 =>
           inventory[<<p, "marketplace_a">>]
             = Some(AuditOf(p)[Len(AuditOf(p))].new_quantity)

\* C7: any two enqueue operations are given different job ids.
C7_JobIdsUnique ==
  \A i, j \in Accepted : i # j => responses[i].jobId # responses[j].jobId

\* The signature the server expects for the request.
Expected(req) == HmacHex(Secret, JsonStringify(JsonParse(req.raw)))

\* C8: a request whose signature header is missing or differs from the
\* expected digest is answered 401 and enqueues nothing.
C8_BadSignatureIs401 ==
  \A i \in 1..Len(responses) :
    (~responses[i].req.sig.present \/ responses[i].req.sig # Expected(responses[i].req))
      => responses[i].status = 401 /\ responses[i].jobId = NoJob

\* C9: the signature check passes if and only if the header is the HMAC of
\* the exact bytes of the received body.
C9_SignatureOverRawBody ==
  \A i \in 1..Len(responses) :
    (responses[i].sig = "true")
      <=> (responses[i].req.sig = HmacHex(Secret, responses[i].req.raw))

\* C10: a correctly signed request whose body transform rejects is answered
\* 400 and enqueues nothing.
C10_BadPayloadIs400 ==
  \A i \in 1..Len(responses) :
    (responses[i].sig = "true" /\ ~SchemaAOk(JsonParse(responses[i].req.raw)))
      => responses[i].status = 400 /\ responses[i].jobId = NoJob

\* C11: a webhook is answered 202 only once its job is in the queue, every
\* 202 answer adds exactly one job, and an answer of 500 adds none.
C11_OneJobPer202 ==
  [][Len(responses') = Len(responses) + 1 =>
       LET r == responses'[Len(responses')]
       IN /\ r.status = 202 =>
               /\ r.jobId \in DOMAIN jobs'
               /\ Cardinality(DOMAIN jobs') = Cardinality(DOMAIN jobs) + 1
          /\ r.status # 202 => jobs' = jobs /\ r.jobId = NoJob]_vars

\* The payload's field under the name the adapter reads it by.
Field(name) ==
  Get(payload.obj,
      IF payload.adapter = "marketplace_a"
      THEN CASE name = "id" -> "product_code" [] name = "quantity" -> "available_stock"
             [] name = "place" -> "warehouse" [] OTHER -> "timestamp"
      ELSE CASE name = "id" -> "sku" [] name = "quantity" -> "qty"
             [] name = "place" -> "location_id" [] OTHER -> "last_modified")

\* The payload lacks a required field, has a field of the wrong type, or
\* carries a negative quantity.
BadPayload ==
  \/ Field("id").kind # "str"
  \/ Field("quantity").kind # "int"
  \/ Field("quantity").n < 0
  \/ Field("place").kind \notin {"str", "none"}
  \/ IF payload.adapter = "marketplace_a"
     THEN Field("time").kind # "str"
     ELSE Field("time").kind \notin {"int", "frac"}

\* C12: for both adapters, transform fails for every payload that lacks a
\* required field, has a field of the wrong type or a negative quantity.
C12_BadPayloadRejected == record.called /\ BadPayload => ~record.ok

\* The instant the payload's timestamp denotes, in milliseconds.
PayloadInstant ==
  IF payload.adapter = "marketplace_a"
  THEN DateParse(Field("time").s)
  ELSE Times1000(Field("time"))

\* C13: every record transform returns passes the canonical schema and
\* carries the payload's product id, quantity, warehouse id and timestamp
\* (for Marketplace B the instant last_modified * 1000 ms).
C13_RecordCanonical ==
  record.called /\ record.ok =>
    /\ InternalInventoryOk(record.rec)
    /\ record.rec.productId = Field("id").s
    /\ record.rec.quantity = Field("quantity").n
    /\ record.rec.warehouseId = Field("place")
    /\ DateParse(record.rec.updatedAt) = PayloadInstant

\* C14: every committed inventory row, and every audit row, has a quantity
\* >= 0: an upsert of a negative quantity never commits.
C14_NonNegative ==
  /\ \A k \in Keys : inventory[k] # Null => inventory[k][1] >= 0
  /\ \A i \in 1..Len(audit) : audit[i].new_quantity >= 0

\* C14 witness: a record with a negative quantity reached the repository
\* and its INSERT was refused.
C14_Witness ==
  \E id \in DOMAIN jobs :
    /\ jobs[id].data.quantity < 0
    /\ jobs[id].pc = "release" /\ jobs[id].err = "check"

\* C15: a job whose payload fails the canonical schema never has its upsert
\* invoked, and a job that fails on it or on a constraint violation is
\* attempted once and goes to failed without a retry.
C15_PermanentFailureNotRetried ==
  \A id \in DOMAIN jobs :
    /\ ~InternalInventoryOk(jobs[id].data) =>
         /\ jobs[id].pc \notin FnSteps
         /\ jobs[id].attemptsMade <= 1
         /\ jobs[id].state # "delayed"
    /\ jobs[id].failedReason = "check" =>
         jobs[id].attemptsMade = 1 /\ jobs[id].state = "failed"

\* The number of times processJob was started for the job.
Runs(id) ==
  jobs[id].attemptsMade + jobs[id].stalledCount
    + (IF jobs[id].state = "active" THEN 1 ELSE 0)

\* C16 as stated: processJob is started at most `attempts` times for a job.
C16_AtMostFiveRuns == \A id \in DOMAIN jobs : Runs(id) <= attempts

\* processJob threw for the job in this step.
AttemptFails(id) == jobs'[id].attemptsMade = jobs[id].attemptsMade + 1

\* C16 amended: a job has at most 5 failed attempts (a run cut short by a
\* worker crash is not counted); its n-th failed attempt, n < 5, moves it to
\* delayed with nextRunAt = now + 2000 * 2^(n-1), and it is not moved to
\* waiting before that time; its 5th failed attempt moves it to failed;
\* and a failed job never changes again.
C16_BoundedRetry ==
  [][\A id \in DOMAIN jobs :
       /\ jobs'[id].attemptsMade <= 5
       /\ jobs'[id].attemptsMade \in {jobs[id].attemptsMade, jobs[id].attemptsMade + 1}
       /\ AttemptFails(id) /\ jobs'[id].attemptsMade < 5 =>
            /\ jobs'[id].state = "delayed"
            /\ jobs'[id].nextRunAt = now + 2000 * Pow2(jobs'[id].attemptsMade - 1)
       /\ AttemptFails(id) /\ jobs'[id].attemptsMade = 5 => jobs'[id].state = "failed"
       /\ jobs[id].state = "delayed" /\ jobs'[id].state # "delayed" =>
            jobs'[id].state = "waiting" /\ now' >= jobs[id].nextRunAt
       /\ jobs[id].state = "failed" => jobs'[id] = jobs[id]]_vars

\* C16 witness: a job failed after its 5th failed attempt.
C16_Witness ==
  \E id \in DOMAIN jobs : jobs[id].state = "failed" /\ jobs[id].attemptsMade = 5

\* The audit rows the job's upserts left.
AuditRowsOf(id) ==
  SelectSeq(audit, LAMBDA r : /\ r.product_id = jobs[id].data.productId
                              /\ r.source = jobs[id].data.source
                              /\ r.new_quantity = jobs[id].data.quantity)

\* C17: a job whose first attempt failed inside upsert (a connection or query
\* error) is retried and eventually completes, unless a later attempt fails
\* too or its worker crashes; and once completed, without such a crash, its
\* attempts together left exactly one audit row.
C17_TransientRetryCompletes ==
  /\ \A id \in JobIds :
       (/\ id \in DOMAIN jobs
        /\ jobs[id].state = "delayed"
        /\ jobs[id].attemptsMade = 1
        /\ jobs[id].failedReason \in FnSteps)
         ~> (/\ id \in DOMAIN jobs
             /\ \/ jobs[id].state = "completed"
                \/ jobs[id].attemptsMade > 1
                \/ jobs[id].stalledCount > 0)
  /\ [](\A id \in DOMAIN jobs :
          jobs[id].state = "completed" /\ jobs[id].stalledCount = 0
            => Len(AuditRowsOf(id)) = 1)

\* C17 witness: a job completed on its second attempt, after a failure at
\* COMMIT, with one audit row.
C17_Witness ==
  \E id \in DOMAIN jobs :
    /\ jobs[id].state = "completed"
    /\ jobs[id].attemptsMade = 1 /\ jobs[id].stalledCount = 0
    /\ jobs[id].failedReason = "commit"
    /\ Len(AuditRowsOf(id)) = 1

\* The lock key of the job's product holds the value of the job's current
\* acquisition.
HoldsLock(id) == lock[jobs[id].data.productId] = Nonce(id)

\* C18: when fn finishes, by returning or by throwing, withLock attempts the
\* release exactly once; after it the key no longer holds this acquisition's
\* value, and processJob's outcome is fn's outcome (completed when fn
\* returned, fn's error when it threw), also when the release finds the key
\* gone.
C18_ReleaseOnEveryExit ==
  [][\A id \in DOMAIN jobs :
       /\ jobs'[id].releases <= 1
       /\ InFn(id) /\ ~InFn(id)' /\ jobs'[id].pc # "dead" =>
            jobs'[id].pc = "release" /\ jobs'[id].releases = 0
       /\ Running(id) /\ jobs[id].pc = "release" /\ jobs'[id].pc \notin {"release", "dead"} =>
            /\ jobs'[id].releases = 1
            /\ ~HoldsLock(id)
               => lock'[jobs[id].data.productId] = lock[jobs[id].data.productId]
            /\ HoldsLock(id) => lock'[jobs[id].data.productId] = NoLock
            /\ jobs[id].err = "" => jobs'[id].state = "completed"
            /\ jobs[id].err # "" =>
                 /\ jobs'[id].state \in {"delayed", "failed"}
                 /\ jobs'[id].failedReason = jobs[id].err]_vars

\* C18 witness: fn threw, and the job was settled with fn's error after one
\* release attempt that left the key free.
C18_Witness ==
  \E id \in DOMAIN jobs :
    /\ jobs[id].state = "delayed" /\ jobs[id].failedReason \in FnSteps
    /\ jobs[id].releases = 1
    /\ lock[jobs[id].data.productId] = NoLock

\* The number of acquisition attempts the job's withLock call has started.
AcquireAttempts(id) ==
  IF Running(id) /\ jobs[id].pc = "acquire" THEN jobs[id].tries + 1 ELSE 0

\* C19: a withLock call makes the initial acquisition attempt plus at most
\* opts.retries (3) retries before it fails.
C19_HonoursCallerRetries ==
  \A id \in DOMAIN jobs : AcquireAttempts(id) <= 1 + optsRetries

\* The invocations whose polling cycle is in progress.
InCycle == {c \in 1..Len(polls) : polls[c].pc \in CyclePcs}

\* A poll() invocation starts in this step.
Invoked == Len(polls') = Len(polls) + 1

\* C20: at most one polling cycle is in progress at any instant, isRunning
\* tells whether one is, and a poll() invocation that starts while a cycle is
\* in progress ends at once: it reads no cursor, sends no HTTP request,
\* enqueues nothing and leaves consecutiveFailures (and everything else) as
\* it was.
C20_SingleFlight ==
  [][/\ Cardinality(InCycle') <= 1
     /\ isRunning' <=> InCycle' # {}
     /\ Invoked /\ InCycle # {} =>
          /\ polls'[Len(polls')].pc = "skipped"
          /\ UNCHANGED <<isRunning, consecutiveFailures, cursor, http, jobs, timers>>
     /\ \A c \in 1..Len(polls) :
          polls[c].pc = "skipped" => polls'[c] = polls[c]]_vars

\* C20 witness: an invocation was skipped while a cycle was awaiting the
\* HTTP response, and that cycle then went on to enqueue.
C20_Witness ==
  \E c, d \in 1..Len(polls) :
    /\ c < d
    /\ polls[c].pc = "update"
    /\ polls[d].pc = "skipped"

\* The poll() invocations the single-flight guard did not turn away, in order.
Considered == SelectSeq(polls, LAMBDA p : p.pc # "skipped")

\* The three most recent of them each ran a cycle that failed.
ThreeFailuresInARow ==
  /\ Len(Considered) >= 3
  /\ \A i \in (Len(Considered) - 2)..Len(Considered) : Considered[i].pc = "failed"

\* C21: when the three most recent polling cycles have failed, with no
\* successful cycle and no skipped cycle between or after them, the next
\* poll() invocation is skipped by the circuit breaker and sends no HTTP
\* request.
C21_OpensAfterThreeFailures ==
  [][Invoked /\ InCycle = {} /\ ThreeFailuresInARow =>
       /\ polls'[Len(polls')].pc = "open"
       /\ http' = http]_vars

\* C22: while consecutiveFailures >= 3 no cycle runs and every poll()
\* invocation is skipped: it reads no cursor, sends no HTTP request, enqueues
\* nothing and leaves the counter as it is; the counter changes only by
\* going back to 0 when a reset timer fires, no earlier than 15 minutes
\* after that timer was scheduled.
C22_OpenCircuitSkips ==
  [][consecutiveFailures >= MAX_FAILURES =>
       /\ InCycle = {} /\ InCycle' = {}
       /\ UNCHANGED <<cursor, http, jobs, isRunning>>
       /\ Invoked =>
            /\ polls'[Len(polls')].pc = "open"
            /\ UNCHANGED consecutiveFailures
            /\ timers' = Append(timers, now + ResetDelay)
       /\ consecutiveFailures' # consecutiveFailures =>
            /\ consecutiveFailures' = 0
            /\ timers # <<>> /\ timers' = Tail(timers)
            /\ now' >= Head(timers)]_vars

\* C22 witness: the circuit opened, an invocation was skipped, and the reset
\* timer it scheduled has fired.
C22_Witness ==
  /\ \E c \in 1..Len(polls) : polls[c].pc = "open"
  /\ consecutiveFailures = 0
  /\ timers = <<>>
  /\ now >= ResetDelay

\* The update was returned by a fetch and its record handed to the queue.
Enqueued(u) ==
  \E c \in 1..Len(polls) :
    /\ polls[c].pc \in {"update", "done"}
    /\ \E i \in 1..Len(polls[c].batch) :
         /\ polls[c].batch[i] = TransformB(ItemOf(u))
         /\ BatchJobId(polls[c].batch[i], polls[c].at, i - 1) \in DOMAIN jobs

\* The stored cursor is later than the update.
Past(u) == cursor # Null /\ ParseInt(cursor[1]) > u.last_modified

\* C23: the cursor is written only once the fetched batch is in the queue,
\* and it never moves past an update of Marketplace B that no fetch returned:
\* every update older than the stored cursor has been fetched and enqueued.
C23_CursorNeverSkipsUpdate ==
  [][/\ cursor' # cursor =>
          \E c \in 1..Len(polls) :
            /\ polls[c].pc = "update" /\ polls'[c].pc = "done"
            /\ \A i \in 1..Len(polls[c].batch) :
                 BatchJobId(polls[c].batch[i], polls[c].at, i - 1) \in DOMAIN jobs
     /\ \A u \in upstream' : Past(u)' => Enqueued(u)']_vars

\* The job's upsert runs its SELECT ... FOR UPDATE in this step.
Selects(id) ==
  Running(id) /\ jobs[id].pc = "select" /\ jobs'[id].pc = "insert"

\* The job's upsert commits in this step.
Committing(id) ==
  Running(id) /\ jobs[id].pc = "commit" /\ jobs'[id].pc = "release"
    /\ jobs'[id].err = ""

\* The job's upsert starts right after a committed upsert of the same
\* record: the last audit row is that of its own product, source and quantity.
ReplaysLast(id) ==
  /\ audit # <<>>
  /\ audit[Len(audit)].product_id = jobs[id].data.productId
  /\ audit[Len(audit)].source = jobs[id].data.source
  /\ audit[Len(audit)].new_quantity = jobs[id].data.quantity

\* C24: when upsert(r) runs right after a committed upsert(r), for any
\* quantity >= 0, the old quantity it reads is r's quantity, and its commit
\* leaves the inventory row as it was and adds one audit row with that old
\* quantity and new_quantity = r's quantity.
C24_IdempotentReplay ==
  [][\A id \in DOMAIN jobs :
       /\ Selects(id) /\ ReplaysLast(id) =>
            jobs'[id].oldQuantity = Some(jobs[id].data.quantity)
       /\ Committing(id) =>
            /\ audit' = Append(audit, AuditRow(id))
            /\ audit'[Len(audit')].old_quantity = jobs[id].oldQuantity
            /\ audit'[Len(audit')].new_quantity = jobs[id].data.quantity
            /\ inventory'[Key(jobs[id].data)] = Some(jobs[id].data.quantity)
            /\ jobs[id].oldQuantity = Some(jobs[id].data.quantity) =>
                 inventory' = inventory]_vars

\* C27: the old quantity an upsert reads is null exactly when no inventory
\* row exists for (product_id, source), and otherwise the quantity of that
\* row, 0 included; the row still holds that quantity when the upsert
\* commits, and the audit row the commit adds carries it as old_quantity.
C27_OldQuantityRead ==
  [][\A id \in DOMAIN jobs :
       /\ Selects(id) =>
            jobs'[id].oldQuantity = inventory[Key(jobs[id].data)]
       /\ Committing(id) =>
            /\ audit'[Len(audit')].old_quantity = jobs[id].oldQuantity
            /\ jobs[id].oldQuantity # Null =>
                 inventory[Key(jobs[id].data)] = jobs[id].oldQuantity]_vars

\* What transform does with each payload of the batch, in order.
Mapped == [i \in 1..Len(payload.obj) |-> Transform("marketplace_b", payload.obj[i])]

\* The payloads of the batch that transform accepts, in order.
Kept == SelectSeq(Mapped, LAMBDA r : r.ok)

\* C25: transformBatch returns, without throwing, for every list: one record
\* per payload that transform accepts, each the record transform returns for
\* it, in input order; the payloads transform rejects leave no trace.
C25_BatchNeverFails ==
  record.called =>
    /\ record.ok
    /\ Len(record.rec) = Len(Kept)
    /\ \A i \in 1..Len(Kept) : record.rec[i] = Kept[i].rec

\* C25 witness: a batch of three with a rejected payload between two
\* accepted ones came back as the two records.
C25_Witness ==
  /\ record.called
  /\ Len(payload.obj) = 3
  /\ Mapped[1].ok /\ ~Mapped[2].ok /\ Mapped[3].ok
  /\ record.rec = <<Mapped[1].rec, Mapped[3].rec>>

\* The exit of a closing process cuts no job: it happens only when no run
\* that was in progress at the signal is still in progress (each has
\* completed or failed, or was cut by a crash and is left to the stalled-jobs
\* check), and it changes no job. A closing worker's runs only end.
ExitCutsNoJob ==
  [][/\ proc.state = "closing" => proc'.active = proc.active
     /\ proc.state # "exited" /\ proc'.state = "exited" =>
          /\ proc.state = "closing"
          /\ \A r \in proc.active :
               \/ jobs[r[1]].state \in {"completed", "delayed", "failed"}
               \/ Run(r[1]) # r
               \/ jobs[r[1]].state = "active" /\ jobs[r[1]].pc = "dead"
          /\ jobs' = jobs]_vars

Releases(id) ==
  Running(id) /\ jobs[id].pc = "release" /\ jobs'[id].pc = "idle"

\* C28: a release deletes the key lock:inventory:{p} only when the key holds
\* the value of the releasing call's own acquisition; when the key holds
\* another value (a successor acquired it after the TTL ran out) or is gone,
\* the release leaves every key as it is.
C28_CompareAndDelete ==
  [][\A id \in DOMAIN jobs :
       Releases(id) =>
         /\ \A p \in Products :
              lock'[p] # lock[p] =>
                /\ p = jobs[id].data.productId
                /\ lock[p] = Nonce(id)
                /\ lock'[p] = NoLock
         /\ lock[jobs[id].data.productId] # Nonce(id) => lock' = lock]_vars

\* C28 witness: a job completed and released while a successor held the
\* key: the successor, still holding it, had read the row before the first
\* job's commit.
C28_Witness ==
  \E a, b \in DOMAIN jobs :
    /\ a # b
    /\ jobs[a].state = "completed" /\ jobs[a].releases = 1
    /\ Running(b) /\ jobs[b].pc \in {"insert", "commit"}
    /\ jobs[b].data.productId = jobs[a].data.productId
    /\ jobs[b].oldQuantity = Null
    /\ inventory[Key(jobs[b].data)] # Null
    /\ lock[jobs[b].data.productId] = Nonce(b)

\* The key of product p was left behind: it holds the value of a run of
\* processJob that is no longer in progress (its worker died).
LeftBehind(p) == lock[p] # NoLock /\ ~InProgress(lock[p])

\* Job b of product p has an acquisition attempt ahead of it or in progress.
Unfinished(b, p) ==
  /\ b \in DOMAIN jobs
  /\ jobs[b].data.productId = p
  /\ \/ jobs[b].state \in {"waiting", "delayed"}
     \/ Running(b) /\ jobs[b].pc = "acquire"

\* A run of job b holds the key of product p.
HeldBy(b, p) == lock[p] # NoLock /\ lock[p][1] = b /\ InProgress(lock[p])

\* C29: a key left behind by a dead holder goes away (its TTL runs out), and
\* every job for that product that has yet to acquire the key gets it in a
\* later attempt, unless it ends as failed first.
C29_DeadHolderExpires ==
  \A p \in Products :
    /\ LeftBehind(p) ~> ~LeftBehind(p)
    /\ \A b \in JobIds :
         (LeftBehind(p) /\ Unfinished(b, p))
           ~> (HeldBy(b, p) \/ (b \in DOMAIN jobs /\ jobs[b].state = "failed"))

\* C29 witness: a job holds the key of a product whose earlier holder died
\* in its critical section and has not been taken up again yet.
C29_Witness ==
  \E a, b \in DOMAIN jobs :
    /\ a # b
    /\ jobs[a].state = "active" /\ jobs[a].pc = "dead"
    /\ \E i \in 1..Len(acq) : acq[i] = a
    /\ HeldBy(b, jobs[a].data.productId)

\* A reset timer fires in this step.
TimerFires == Len(timers') < Len(timers)

\* C30: a reset timer fires no earlier than 15 minutes after the skipped
\* cycle that scheduled it and sets consecutiveFailures to 0; it does so
\* only to close the open circuit, never clearing failures that were counted
\* after the circuit had closed (a counter between 1 and 2).
C30_TimerOnlyClosesOpenCircuit ==
  [][TimerFires =>
       /\ now' >= Head(timers)
       /\ consecutiveFailures' = 0
       /\ consecutiveFailures >= MAX_FAILURES \/ consecutiveFailures = 0]_vars

\* The cycle of invocation c ends in this step without an error: by the
\* empty-result return or after the cursor write.
EndsWell(c) ==
  /\ polls[c].pc \in CyclePcs
  /\ polls'[c].pc \in {"empty", "done"}

\* The step is the cycle's redisClient.set of the cursor: the cycle was
\* awaiting the cursor write, or the stored value changes.
WritesCursor(c) ==
  /\ cursor' # Null
  /\ polls[c].pc = "update" \/ cursor' # cursor

\* C31: every polling cycle whose fetch succeeds, the empty items list
\* included, writes marketplace_b:last_timestamp before it ends and clears
\* consecutive_failures.
C31_SuccessfulCycleWritesCursor ==
  [][\A c \in 1..Len(polls) :
       EndsWell(c) => WritesCursor(c) /\ consecutiveFailures' = 0]_vars

\* C32: the value a cycle writes to the cursor is the Unix time at which
\* that cycle started.
C32_CursorIsCycleStart ==
  [][\A c \in 1..Len(polls) :
       polls[c].pc = "update" /\ polls'[c].pc = "done"
         => cursor' = Some(ToString(UnixSeconds(polls[c].started)))]_vars

\* The last cycle before invocation d that was not skipped.
Previous(d) ==
  {c \in 1..(d - 1) :
     /\ polls[c].pc \notin {"skipped", "open"}
     /\ \A e \in (c + 1)..(d - 1) : polls[e].pc \in {"skipped", "open"}}

\* The cycle of invocation c fails in this step at the cursor read, the
\* fetch or the enqueue.
FailsNow(c) ==
  /\ polls[c].pc \in {"cursor", "fetch", "enqueue"}
  /\ polls'[c].pc = "failed"

\* Invocation d sends its fetch in this step, and the cycle before it
\* failed after sending its own.
FetchesAfterFailure(c, d) ==
  /\ polls[d].pc = "cursor" /\ polls'[d].pc = "fetch"
  /\ c \in Previous(d)
  /\ polls[c].pc = "failed" /\ polls[c].asked

Ends(c) == polls[c].pc \in CyclePcs /\ polls'[c].pc \notin CyclePcs

\* C34: a cycle that set isRunning clears it when it ends, by success, by
\* the empty-result return or by a thrown error, and a poll() invocation
\* made while no cycle is in progress is not skipped by the single-flight
\* guard.
C34_NeverWedged ==
  [][/\ \A c \in 1..Len(polls) :
          Ends(c) => polls'[c].pc \in {"done", "empty", "failed"} /\ ~isRunning'
     /\ Invoked /\ InCycle = {} => polls'[Len(polls')].pc # "skipped"]_vars

\* Cycles have ended by success, by the empty-result return and by an
\* error, and the invocation made after them runs a cycle.
C34_Witness ==
  /\ polls # <<>>
  /\ polls[Len(polls)].pc \in CyclePcs
  /\ {"done", "empty", "failed"} \subseteq {polls[c].pc : c \in 1..(Len(polls) - 1)}

\* C35: with Redis, PostgreSQL and the workers healthy, no job with a valid
\* payload ends in failed because other jobs held lock:inventory:{p}.
C35_ContentionNeverDeadLetters ==
  \A id \in DOMAIN jobs : InternalInventoryOk(jobs[id].data) => jobs[id].state # "failed"

====
